---- MODULE Spec2Model ----
(***************************************************************************)
(* Particle sequence ordering of scripts/train_linformer.py: the scalar    *)
(* key sorts of main() and sort_events_by_cluster().                       *)
(*                                                                         *)
(* Index lists (sort_idx, sorted_indices, constituents) are sequences of   *)
(* 0-based slot indices, as in the Python.  Arrays are functions over      *)
(* 0..n-1.                                                                 *)
(*                                                                         *)
(* Numbers.  pt is a non-negative integer.  phi is counted in half turns   *)
(* (0 is 0 rad, 1 is pi rad), for which cos and sin are exact.  Events     *)
(* handed to the clustering have eta = 0, for which sinh and cosh are      *)
(* exact, so every four-vector is an integer vector.  Sort keys that the   *)
(* code computes with a square root are represented by an integer that     *)
(* orders the same way (see SortKey).                                      *)
(*                                                                         *)
(* fastjet is a library: what fj.ClusterSequence does inside is modelled   *)
(* from section 4.3 of the specification (BeamDistance, PairDistance,      *)
(* NextStep, Recombine, BeamFinalize).                                     *)
(***************************************************************************)
EXTENDS Integers, Sequences, FiniteSets, TLC

\* x.shape[1]: particles per event
NParticles == 3
\* largest x.shape[0] of the batch inputs
MaxEvents == 3
\* default of --cluster_batch_size
DefaultBatchSize == 1024

PtVals == {0, 2, 5, 8}
\* half turns: 0 rad and pi rad
PhiVals == {0, 1}
\* (eta, phi) of the rows with pt > 0 of the scalar inputs
EtaPhiVals == {<<-1, 1>>, <<1, 0>>}
\* pt of the rows of the clustered inputs
ClusterPtVals == {0, 2, 5}
\* --cluster_R as a fraction n/d: the default 0.4, and 4.0 (larger than pi)
RVals == {[n |-> 2, d |-> 5], [n |-> 4, d |-> 1]}
DefaultR == [n |-> 2, d |-> 5]

ScalarSelectors == {"pt", "eta", "phi", "delta_R", "kt"}

\* a padding row is all zero
Pad == [pt |-> 0, eta |-> 0, phi |-> 0]

\* rows of the scalar inputs
Particle ==
  {Pad} \cup {[pt |-> p, eta |-> d[1], phi |-> d[2]] : p \in PtVals \ {0}, d \in EtaPhiVals}

\* rows of the clustered inputs: eta = 0
ClusterParticle == {Pad} \cup [pt : ClusterPtVals \ {0}, eta : {0}, phi : PhiVals]

Slots == 0..(NParticles - 1)

VARIABLES
  sort_by,      \* args.sort_by
  R,            \* args.cluster_R
  batch_size,   \* args.cluster_batch_size
  x,            \* the loaded array: event index -> slot -> particle
  sorted_x,     \* the reordered array (x after the sort in main)
  sort_idx,     \* per event, the index sequence its rows were taken by
  pc,           \* where the program is
  start,        \* chunk loop variable
  i,            \* event loop variable (enumerate(batch))
  active,       \* ClusterSequence: candidates not yet finalized
  jets,         \* ClusterSequence: emitted jets; after assembly, the sorted jets
  steps,        \* recombination steps taken for the current event
  merges,       \* of which merges
  processed,    \* per event, how many times a row was written for it
  last          \* what the last recombination step did

vars == <<sort_by, R, batch_size, x, sorted_x, sort_idx, pc, start, i,
          active, jets, steps, merges, processed, last>>

n_events == Cardinality(DOMAIN x)

ZeroRow == [s \in Slots |-> Pad]

NoStep == [kind |-> "none", zero_i |-> FALSE, zero_j |-> FALSE,
           nonzero_active |-> FALSE, phys_pending |-> FALSE]

----------------------------------------------------------------------------
(* Scalar key sorts, main() *)

\* pi^2 as a fraction, 79/8
Pi2Num == 79
Pi2Den == 8

\* eta^2 + phi^2 times Pi2Den, phi = h * pi
DeltaR2(p) == Pi2Den * p.eta * p.eta + Pi2Num * p.phi * p.phi

\* The key of one particle.  delta_R = sqrt(eta^2+phi^2) and
\* kt = pt*sqrt(eta^2+phi^2) are given by their squares (times Pi2Den):
\* pt >= 0 and sqrt is increasing, so the order and the ties are the same.
SortKey(sel, p) ==
  CASE sel = "pt"      -> p.pt
    [] sel = "eta"     -> p.eta
    [] sel = "phi"     -> p.phi
    [] sel = "delta_R" -> DeltaR2(p)
    [] sel = "kt"      -> p.pt * p.pt * DeltaR2(p)

Keys(sel, ev) == [s \in DOMAIN ev |-> SortKey(sel, ev[s])]

IndexSeqs(n) == {p \in [1..n -> 0..(n - 1)] : \A a, b \in 1..n : p[a] = p[b] => a = b}

\* np.argsort(key): default kind "quicksort" is not a stable sort, so any
\* index sequence that puts the keys in ascending order is a possible result.
ArgsortResults(key) ==
  LET n == Cardinality(DOMAIN key)
  IN {p \in IndexSeqs(n) : \A k \in 1..(n - 1) : key[p[k]] <= key[p[k + 1]]}

ReversedNoOp(s) == s

\* [::-1]
Reversed(s) == [k \in 1..Len(s) |-> s[Len(s) + 1 - k]]

\* np.take_along_axis(x, sort_idx) for one event; event[sorted_indices]
Take(ev, idx) == [k \in 0..(Len(idx) - 1) |-> ev[idx[k + 1]]]

SortScalar ==
  /\ pc = "main"
  /\ sort_by \in ScalarSelectors
  /\ \E res \in [DOMAIN x -> IndexSeqs(NParticles)] :
       /\ \A e \in DOMAIN x : res[e] \in ArgsortResults(Keys(sort_by, x[e]))
       /\ sort_idx' = [e \in DOMAIN x |-> Reversed(res[e])]
  /\ sorted_x' = [e \in DOMAIN x |-> Take(x[e], sort_idx'[e])]
  /\ pc' = "done"
  /\ processed' = [e \in DOMAIN x |-> 1]
  /\ UNCHANGED <<sort_by, R, batch_size, x, start, i, active, jets, steps, merges, last>>

----------------------------------------------------------------------------
(* sort_events_by_cluster: four-vectors and the candidates handed to fastjet *)

\* cos and sin of h half turns
Cos(h) == IF h = 0 THEN 1 ELSE -1
Sin(h) == 0
\* sinh and cosh at eta = 0, the pseudorapidity of every clustered event
Sinh(eta) == 0
Cosh(eta) == 1

FourVector(p) ==
  [px |-> p.pt * Cos(p.phi), py |-> p.pt * Sin(p.phi),
   pz |-> p.pt * Sinh(p.eta), E |-> p.pt * Cosh(p.eta)]

PseudoJet(v, members) ==
  [px |-> v.px, py |-> v.py, pz |-> v.pz, E |-> v.E, idx |-> members]

LeavesDropLast(ev) ==
  [j \in 1..(NParticles - 1) |-> PseudoJet(FourVector(ev[j - 1]), <<j - 1>>)]

\* ps: one PseudoJet per slot, user_index = the slot
Leaves(ev) ==
  [j \in 1..NParticles |-> PseudoJet(FourVector(ev[j - 1]), <<j - 1>>)]

\* perp()^2
Perp2(c) == c.px * c.px + c.py * c.py

----------------------------------------------------------------------------
(* fj.ClusterSequence(ps, jet_def) with the anti-kt distance *)

\* Distances are fractions num/den; den = 0 is +infinity.
Inf == [num |-> 1, den |-> 0]
Less(a, b) == a.num * b.den < b.num * a.den

Max(a, b) == IF a >= b THEN a ELSE b

\* azimuth of a candidate in half turns; atan2(0, 0) = 0
CandPhi(c) == IF c.px < 0 THEN 1 ELSE 0

\* (Delta R)^2 times Pi2Den: eta is 0 and the azimuths differ by 0 or pi
CandDeltaR2(a, b) == IF CandPhi(a) = CandPhi(b) THEN 0 ELSE Pi2Num

BeamDistanceZeroFirst(c) ==
  IF Perp2(c) = 0 THEN [num |-> 0, den |-> 1] ELSE [num |-> 1, den |-> Perp2(c)]

\* d_iB = kt^-2, +infinity for a zero-momentum candidate
BeamDistance(c) ==
  IF Perp2(c) = 0 THEN Inf ELSE [num |-> 1, den |-> Perp2(c)]

\* d(i,j) = min(kt_i^-2, kt_j^-2) * DeltaR^2 / R^2, with kt^-2 = +infinity
\* at kt = 0; min(kt_i^-2, kt_j^-2) = 1 / max(kt_i^2, kt_j^2).  Two
\* zero-momentum candidates are at distance +infinity.
PairDistance(a, b, r) ==
  LET m == Max(Perp2(a), Perp2(b))
  IN IF m = 0 THEN Inf
     ELSE [num |-> CandDeltaR2(a, b) * r.d * r.d,
           den |-> Pi2Den * r.n * r.n * m]

\* The things a step can do: finalize candidate i (j = i), or merge i and j.
Options(act) ==
  {[kind |-> "beam", i |-> a, j |-> a] : a \in 1..Len(act)}
  \cup {[kind |-> "pair", i |-> o[1], j |-> o[2]] :
          o \in {q \in (1..Len(act)) \X (1..Len(act)) : q[1] < q[2]}}

Dist(act, o, r) ==
  IF o.kind = "beam" THEN BeamDistance(act[o.i])
  ELSE PairDistance(act[o.i], act[o.j], r)

\* The global minimum; among equal distances the first in index order.
NextStep(act, r) ==
  LET opts == Options(act)
      least == {o \in opts : \A o2 \in opts : ~Less(Dist(act, o2, r), Dist(act, o, r))}
      rank(o) == o.i * (Len(act) + 1) + o.j
  IN CHOOSE o \in least : \A o2 \in least : rank(o) <= rank(o2)

Without(act, gone) ==
  LET keep(k) == k \notin gone
  IN SelectSeq([k \in 1..Len(act) |-> [pos |-> k, c |-> act[k]]],
               LAMBDA e : keep(e.pos))

Cands(marked) == [k \in 1..Len(marked) |-> marked[k].c]

\* component-wise sum; i's indices followed by j's
Merged(a, b) ==
  [px |-> a.px + b.px, py |-> a.py + b.py, pz |-> a.pz + b.pz, E |-> a.E + b.E,
   idx |-> a.idx \o b.idx]

AfterMerge(act, o) == Append(Cands(Without(act, {o.i, o.j})), Merged(act[o.i], act[o.j]))
AfterBeam(act, o) == Cands(Without(act, {o.i}))

\* The jets the sequence ends with, in the order they were emitted.
RECURSIVE RunCluster(_, _, _)
RunCluster(act, emitted, r) ==
  IF act = <<>> THEN emitted
  ELSE LET o == NextStep(act, r)
       IN IF o.kind = "pair"
          THEN RunCluster(AfterMerge(act, o), emitted, r)
          ELSE RunCluster(AfterBeam(act, o), Append(emitted, act[o.i]), r)

----------------------------------------------------------------------------
(* sort_events_by_cluster: jets to sorted_indices *)

\* seq.inclusive_jets(): the library lists the jets from the last emitted to
\* the first
InclusiveJets(emitted) == Reversed(emitted)

\* sorted(seq.inclusive_jets(), key=perp, reverse=True): a stable sort, so a
\* jet is placed after every jet whose perp is not smaller.
RECURSIVE SortedJetsAscending(_)
SortedJetsAscending(js) ==
  IF js = <<>> THEN <<>>
  ELSE LET rest == SortedJetsAscending(SubSeq(js, 1, Len(js) - 1))
           j == js[Len(js)]
           before == SelectSeq(rest, LAMBDA q : Perp2(q) <= Perp2(j))
           after == SelectSeq(rest, LAMBDA q : Perp2(q) > Perp2(j))
       IN before \o <<j>> \o after

RECURSIVE SortedJets(_)
SortedJets(js) ==
  IF js = <<>> THEN <<>>
  ELSE LET rest == SortedJets(SubSeq(js, 1, Len(js) - 1))
           j == js[Len(js)]
           before == SelectSeq(rest, LAMBDA q : Perp2(q) >= Perp2(j))
           after == SelectSeq(rest, LAMBDA q : Perp2(q) < Perp2(j))
       IN before \o <<j>> \o after

\* for jet in jets: for const in jet.constituents(): append(user_index)
RECURSIVE ConstituentIndices(_)
ConstituentIndices(js) ==
  IF js = <<>> THEN <<>> ELSE js[1].idx \o ConstituentIndices(Tail(js))

Range(s) == {s[k] : k \in 1..Len(s)}

RECURSIVE Ascending(_)
Ascending(S) ==
  IF S = {} THEN <<>>
  ELSE LET m == CHOOSE a \in S : \A b \in S : a <= b
       IN <<m>> \o Ascending(S \ {m})

RemainingPresent(indices) == Ascending({idx \in Slots : idx \in Range(indices)})

\* [idx for idx in range(n_particles) if idx not in sorted_indices]
Remaining(indices) == Ascending({idx \in Slots : idx \notin Range(indices)})

SortedIndices(js) ==
  LET inJets == ConstituentIndices(js) IN inJets \o Remaining(inJets)

\* What one event's pass writes, from the event and the radius alone.
ClusterOrder(ev, r) ==
  SortedIndices(SortedJets(InclusiveJets(RunCluster(Leaves(ev), <<>>, r))))

----------------------------------------------------------------------------
(* sort_events_by_cluster: the loops *)

Min(a, b) == IF a <= b THEN a ELSE b

ChunkEndShort(s) == Min(s + batch_size - 1, n_events)

\* end = min(start + batch_size, n_events)
ChunkEnd(s) == Min(s + batch_size, n_events)

\* main: the cluster branch calls sort_events_by_cluster, which allocates the
\* zero array and evaluates range(0, n_events, batch_size): a step of 0 raises.
CallCluster ==
  /\ pc = "main"
  /\ sort_by = "cluster"
  /\ sorted_x' = [e \in DOMAIN x |-> ZeroRow]
  /\ start' = 0
  /\ pc' = IF batch_size = 0 THEN "error" ELSE "chunk"
  /\ UNCHANGED <<sort_by, R, batch_size, x, sort_idx, i, active, jets, steps, merges,
                 processed, last>>

\* for start in range(0, n_events, batch_size): a negative step gives an
\* empty range, and the function returns sorted_x
NextChunk ==
  /\ pc = "chunk"
  /\ IF batch_size > 0 /\ start < n_events
     THEN /\ pc' = "event"
          /\ i' = 0
     ELSE /\ pc' = "done"
          /\ i' = i
  /\ UNCHANGED <<sort_by, R, batch_size, x, sorted_x, sort_idx, start, active, jets,
                 steps, merges, processed, last>>

\* for i, event in enumerate(batch): build ps and start the ClusterSequence;
\* at the end of the batch, the next start
NextEvent ==
  /\ pc = "event"
  /\ IF start + i < ChunkEnd(start)
     THEN /\ active' = Leaves(x[start + i])
          /\ jets' = <<>>
          /\ steps' = 0
          /\ merges' = 0
          /\ last' = NoStep
          /\ pc' = "cluster"
          /\ start' = start
     ELSE /\ start' = start + batch_size
          /\ pc' = "chunk"
          /\ UNCHANGED <<active, jets, steps, merges, last>>
  /\ UNCHANGED <<sort_by, R, batch_size, x, sorted_x, sort_idx, i, processed>>

\* slots of the current event with pt > 0 that are in no emitted jet
PhysPending ==
  \E s \in Slots : /\ x[start + i][s].pt > 0
                   /\ \A k \in 1..Len(jets) : s \notin Range(jets[k].idx)

NonzeroActive == \E k \in 1..Len(active) : Perp2(active[k]) > 0

\* the minimum is a pairwise distance: merge i and j
Recombine ==
  /\ pc = "cluster"
  /\ active # <<>>
  /\ LET o == NextStep(active, R)
     IN /\ o.kind = "pair"
        /\ active' = AfterMerge(active, o)
        /\ last' = [kind |-> "merge", zero_i |-> Perp2(active[o.i]) = 0,
                    zero_j |-> Perp2(active[o.j]) = 0,
                    nonzero_active |-> NonzeroActive, phys_pending |-> PhysPending]
  /\ steps' = steps + 1
  /\ merges' = merges + 1
  /\ UNCHANGED <<sort_by, R, batch_size, x, sorted_x, sort_idx, pc, start, i, jets,
                 processed>>

\* the minimum is a beam distance: candidate i becomes a jet
BeamFinalize ==
  /\ pc = "cluster"
  /\ active # <<>>
  /\ LET o == NextStep(active, R)
     IN /\ o.kind = "beam"
        /\ active' = AfterBeam(active, o)
        /\ jets' = Append(jets, active[o.i])
        /\ last' = [kind |-> "beam", zero_i |-> Perp2(active[o.i]) = 0,
                    zero_j |-> FALSE,
                    nonzero_active |-> NonzeroActive, phys_pending |-> PhysPending]
  /\ steps' = steps + 1
  /\ UNCHANGED <<sort_by, R, batch_size, x, sorted_x, sort_idx, pc, start, i, merges,
                 processed>>

\* the sequence has run: sort the jets, collect the indices, write the row
Assemble ==
  /\ pc = "cluster"
  /\ active = <<>>
  /\ jets' = SortedJets(InclusiveJets(jets))
  /\ sort_idx' = [sort_idx EXCEPT ![start + i] = SortedIndices(jets')]
  /\ sorted_x' = [sorted_x EXCEPT ![start + i] = Take(x[start + i], sort_idx'[start + i])]
  /\ processed' = [processed EXCEPT ![start + i] = @ + 1]
  /\ i' = i + 1
  /\ pc' = "event"
  /\ UNCHANGED <<sort_by, R, batch_size, x, start, active, steps, merges, last>>

----------------------------------------------------------------------------
(* The inputs *)

Event == [Slots -> Particle]

ClusterEvents == [Slots -> ClusterParticle]

Hard == [pt |-> 5, eta |-> 0, phi |-> 0]
Back == [pt |-> 2, eta |-> 0, phi |-> 1]

\* two events for the inputs of several events
BatchEvents ==
  {[s \in Slots |-> IF s = 0 THEN Pad ELSE Hard],
   [s \in Slots |-> IF s = 0 THEN Back ELSE Hard]}

Arrays(n, events) == [0..(n - 1) -> events]

Start ==
  /\ pc = "main"
  /\ sorted_x = x
  /\ sort_idx = [e \in DOMAIN x |-> <<>>]
  /\ start = 0
  /\ i = 0
  /\ active = <<>>
  /\ jets = <<>>
  /\ steps = 0
  /\ merges = 0
  /\ processed = [e \in DOMAIN x |-> 0]
  /\ last = NoStep

\* one event, a scalar selector
InitScalar ==
  /\ sort_by \in ScalarSelectors
  /\ R = DefaultR
  /\ batch_size = DefaultBatchSize
  /\ x \in Arrays(1, Event)

\* one event, clustered
InitCluster ==
  /\ sort_by = "cluster"
  /\ R \in RVals
  /\ batch_size = DefaultBatchSize
  /\ x \in Arrays(1, ClusterEvents)

\* several events, every chunk size from -1 to one more than the event count
InitBatch ==
  /\ sort_by = "cluster"
  /\ R = DefaultR
  /\ batch_size \in (-1)..(MaxEvents + 1)
  /\ \E n \in 0..MaxEvents : x \in Arrays(n, BatchEvents)

Init == (InitScalar \/ InitCluster \/ InitBatch) /\ Start

Next ==
  \/ SortScalar
  \/ CallCluster
  \/ NextChunk
  \/ NextEvent
  \/ Recombine
  \/ BeamFinalize
  \/ Assemble

Spec == Init /\ [][Next]_vars

----------------------------------------------------------------------------
(* Properties *)

Scalar == sort_by \in ScalarSelectors
Clustered == sort_by = "cluster"

Occurrences(s, v) == Cardinality({k \in 1..Len(s) : s[k] = v})
Position(s, v) == CHOOSE k \in 1..Len(s) : s[k] = v
Identity == [k \in 1..NParticles |-> k - 1]
IsBijection(s) == Len(s) = NParticles /\ \A v \in Slots : Occurrences(s, v) = 1

\* the events whose rows have been reordered
Reordered == {e \in DOMAIN x : processed[e] > 0}

\* the event whose row Assemble has just written
JustAssembled == pc = "event" /\ i > 0

\* C1: for every event and every selector, the index sequence the rows were
\* taken by has n_particles entries and holds every slot exactly once, and
\* the output row k is the input row at the k-th index.
C1_Bijection ==
  \A e \in Reordered :
    /\ IsBijection(sort_idx[e])
    /\ \A k \in Slots : sorted_x[e][k] = x[e][sort_idx[e][k + 1]]
    /\ DOMAIN sorted_x[e] = Slots

C1_Witness ==
  /\ Clustered
  /\ JustAssembled
  /\ merges > 0
  /\ IsBijection(sort_idx[start + i - 1])
  /\ sort_idx[start + i - 1] # Identity

\* C2: after a scalar sort the keys of every event are in descending order
\* along the output positions; pt = [5,2,8] sorted by pt gives [2,0,1].
C2_Descending ==
  (pc = "done" /\ Scalar) =>
    \A e \in DOMAIN x :
      /\ \A k \in 1..(NParticles - 1) :
           SortKey(sort_by, x[e][sort_idx[e][k]]) >= SortKey(sort_by, x[e][sort_idx[e][k + 1]])
      /\ \A k \in 0..(NParticles - 2) :
           SortKey(sort_by, sorted_x[e][k]) >= SortKey(sort_by, sorted_x[e][k + 1])
      /\ (/\ sort_by = "pt" /\ NParticles = 3
          /\ x[e][0].pt = 5 /\ x[e][1].pt = 2 /\ x[e][2].pt = 8)
         => sort_idx[e] = <<2, 0, 1>>

C2_Witness ==
  /\ pc = "done"
  /\ sort_by = "pt"
  /\ x[0][0].pt = 5 /\ x[0][1].pt = 2 /\ x[0][2].pt = 8
  /\ sort_idx[0] = <<2, 0, 1>>

\* C3: after a scalar sort, two slots i < j of an event with equal keys
\* appear in the permutation with i before j.
C3_Stable ==
  (pc = "done" /\ Scalar) =>
    \A e \in DOMAIN x : \A a, b \in Slots :
      (a < b /\ SortKey(sort_by, x[e][a]) = SortKey(sort_by, x[e][b]))
        => Position(sort_idx[e], a) < Position(sort_idx[e], b)

\* C4: sorting the sorted event again by the same key gives the identity
\* permutation, whatever the keys.
C4_Idempotent ==
  (pc = "done" /\ Scalar) =>
    \A e \in DOMAIN x :
      \A res \in ArgsortResults(Keys(sort_by, sorted_x[e])) : Reversed(res) = Identity

\* C5: while an event is clustered every slot is in exactly one active
\* candidate or exactly one emitted jet, so at the end every slot is in
\* exactly one jet; the assembled indices are those of the jets followed by
\* the leftovers, every slot once.
C5_Totality ==
  /\ pc = "cluster" =>
       LET all == ConstituentIndices(active) \o ConstituentIndices(jets)
       IN /\ Len(all) = NParticles
          /\ \A v \in Slots : Occurrences(all, v) = 1
  /\ JustAssembled =>
       LET inJets == ConstituentIndices(jets)
           left == Remaining(inJets)
       IN /\ \A v \in Slots : Occurrences(inJets, v) = 1
          /\ \A v \in Slots : Occurrences(inJets \o left, v) = 1
          /\ sort_idx[start + i - 1] = inJets \o left

C5_Witness ==
  /\ pc = "cluster"
  /\ active = <<>>
  /\ merges > 0
  /\ Len(jets) >= 2
  /\ \A v \in Slots : Occurrences(ConstituentIndices(jets), v) = 1

\* C6: the assembled jets are in descending order of perp, the members of a
\* jet come before the members of every later jet, and the leftovers come
\* after every jet member.
C6_JetOrder ==
  JustAssembled =>
    LET order == sort_idx[start + i - 1]
        inJets == ConstituentIndices(jets)
    IN /\ \A k \in 1..(Len(jets) - 1) : Perp2(jets[k]) >= Perp2(jets[k + 1])
       /\ \A k, l \in 1..Len(jets) :
            k < l => \A a \in Range(jets[k].idx) : \A b \in Range(jets[l].idx) :
                       /\ Occurrences(order, a) = 1
                       /\ Occurrences(order, b) = 1
                       /\ Position(order, a) < Position(order, b)
       /\ SubSeq(order, 1, Len(inJets)) = inJets
       /\ \A k \in 1..Len(order) : order[k] \notin Range(inJets) => k > Len(inJets)

C6_Witness ==
  /\ JustAssembled
  /\ Len(jets) >= 2
  /\ Perp2(jets[1]) > Perp2(jets[2])
  /\ Perp2(jets[2]) > 0
  /\ sort_idx[start + i - 1] # Identity

\* C7: for every chunk size > 0 the returned array is, event by event, the
\* event's rows in the order its own clustering gives, which does not depend
\* on the chunk size; every event is written exactly once.
C7_ChunkingInvisible ==
  (pc = "done" /\ Clustered /\ batch_size > 0) =>
    /\ sorted_x = [e \in DOMAIN x |-> Take(x[e], ClusterOrder(x[e], R))]
    /\ \A e \in DOMAIN x : processed[e] = 1

C7_Witness ==
  /\ pc = "done"
  /\ Clustered
  /\ n_events = 3
  /\ batch_size = 2
  /\ sorted_x # x
  /\ \A e \in DOMAIN x : processed[e] = 1

\* C8: with a chunk size <= 0 in cluster mode and events to sort, no event
\* is processed and no array is returned.
C8_FatalConfig ==
  (Clustered /\ batch_size <= 0 /\ n_events > 0) => (pc # "done" /\ Reordered = {})

\* C9: each step of the clustering takes one candidate off the active set,
\* steps are merges or emitted jets, a least distance exists while a
\* candidate is active, and the set is empty after exactly n_particles steps.
C9_Terminates ==
  pc = "cluster" =>
    /\ Len(active) = NParticles - steps
    /\ steps = merges + Len(jets)
    /\ active # <<>> =>
         \E o \in Options(active) :
           \A o2 \in Options(active) : ~Less(Dist(active, o2, R), Dist(active, o, R))
    /\ active = <<>> => steps = NParticles

C9_Witness ==
  /\ pc = "cluster"
  /\ active = <<>>
  /\ steps = NParticles
  /\ merges > 0
  /\ Len(jets) > 0

\* C10 as stated: no step touches a zero-momentum candidate (merges it or
\* finalizes it) while a particle with pt > 0 is in no emitted jet.
C10_PaddingLast ==
  ~(last.kind # "none" /\ (last.zero_i \/ last.zero_j) /\ last.phys_pending)

\* C10 amended: no zero-momentum candidate is finalized (emitted as a jet)
\* while a candidate with non-zero momentum is active.
C10_ZeroNotBeforeNonzero ==
  ~(last.kind = "beam" /\ last.zero_i /\ last.nonzero_active)

C10_Witness ==
  /\ pc = "cluster"
  /\ last.kind = "beam"
  /\ last.zero_i
  /\ ~last.nonzero_active
  /\ \E k \in 1..Len(jets) : Perp2(jets[k]) > 0

====
